---- MODULE Spec2Model ----
(***************************************************************************)
(* A model of src/main.c (equal-l2/patcog): the PGM image operations       *)
(* label_region / label_all (bounded-queue flood fill), scale / rotate /   *)
(* affine_trans (inverse-mapped resampling), find_threshold / binarize     *)
(* (Otsu), find_nearest_region (template matching), cluster_by_kmeans,     *)
(* get_region_props and extract_face (region analysis).                    *)
(*                                                                         *)
(* A PNM is the record [height, width, max, image]; image is a function    *)
(* on <<row, column>> pairs.  The C struct stores image[4096][4096] and    *)
(* only the cells [0,height) x [0,width) are set by read_image; the model  *)
(* keeps, next to the grid, the storage cells label_region can reach when  *)
(* its unsigned guards wrap (one extra row when height = 1, one extra      *)
(* column when width = 1): their content is whatever the memory held.      *)
(*                                                                         *)
(* Real arithmetic (double) is modelled exactly, on rationals, with inputs *)
(* drawn from dyadic values for which the C doubles are exact too.         *)
(***************************************************************************)
EXTENDS Integers, Sequences, FiniteSets, TLC

VARIABLES
    pc,         \* position of the running operation
    img,        \* the PNM the operation works on
    img0,       \* the PNM as it was handed to the operation
    ret,        \* the operation's return value
    qsize,      \* QUEUE_SIZE, the capacity of the labeling queue
    i, j,       \* label_all's scan position
    l_val,      \* label_all's running label counter
    lr,         \* label_region's parameters [y, x, l_val]
    queue,      \* label_region's queue, queue[front .. rear-1]
    ok,         \* label_region's return value
    label_max,  \* label_all's out-parameter
    call,       \* the resampling call made: its name and arguments
    th, th2,    \* find_threshold's results, before and after binarize
    tpl,        \* find_nearest_region's template
    nearest,    \* find_nearest_region's out-parameter
    feats,      \* cluster_by_kmeans: the features' values
    n_clsts,    \*   the number of clusters
    idx_clst,   \*   feats[i].idx_clst
    centre,     \*   clsts[i].centre
    n_membres,  \*   clsts[i].n_membres
    sum_feats,  \*   clsts[i].sum_feats
    finished,   \*   the loop's flag
    mask,       \* extract_face's label map
    ps,         \* the Props array, indexed by label
    max_index   \* extract_face's winning label, 0 when none

gridVars == <<img, img0>>
labVars == <<qsize, i, j, l_val, lr, queue, ok, label_max>>
rsVars == <<call>>
thVars == <<th, th2>>
tmVars == <<tpl, nearest>>
kmVars == <<feats, n_clsts, idx_clst, centre, n_membres, sum_feats, finished>>
raVars == <<mask, ps, max_index>>
vars == <<pc, ret, gridVars, labVars, rsVars, thVars, tmVars, kmVars, raVars>>

\* The variables an operation does not use keep these values.
LabIdle ==
    /\ qsize = 0 /\ i = 0 /\ j = 0 /\ l_val = 0
    /\ lr = [y |-> 0, x |-> 0, l_val |-> 0]
    /\ queue = <<>> /\ ok = TRUE /\ label_max = 0
RsIdle == call = [op |-> "none"]
ThIdle == th = 0 /\ th2 = 0
TmIdle == tpl = [height |-> 0, width |-> 0, max |-> 0, image |-> <<>>] /\ nearest = <<0, 0>>
KmIdle ==
    /\ feats = <<>> /\ n_clsts = 0 /\ idx_clst = <<>> /\ centre = <<>>
    /\ n_membres = <<>> /\ sum_feats = <<>> /\ finished = FALSE
RaIdle ==
    /\ mask = [height |-> 0, width |-> 0, max |-> 0, image |-> <<>>]
    /\ ps = <<>> /\ max_index = 0
notLabVars == <<rsVars, thVars, tmVars, kmVars, raVars>>

(***************************************************************************)
(* Program constants                                                       *)
(***************************************************************************)
WIDTH_MAX == 4096
HEIGHT_MAX == 4096
\* typedef unsigned short uint: values are taken modulo 2^16
UINT_RANGE == 65536

(***************************************************************************)
(* Bounds of the model                                                     *)
(***************************************************************************)
LabMaxDim == 3      \* largest height and width of a labeled grid
LabMaxCells == 6    \* largest height * width of a labeled grid
LabMaxVal == 3      \* largest max value of a labeled grid
SmallQueue == 2     \* queue capacities 1..SmallQueue, next to LargeQueue

(***************************************************************************)
(* Grids                                                                   *)
(***************************************************************************)
Cells(h, w) == (0 .. h - 1) \X (0 .. w - 1)

\* The storage label_region can reach: height - 2 and width - 2 are size_t,
\* so with height = 1 (width = 1) the guard admits row (column) 1 as well.
StoreCells(h, w) ==
    Cells(IF h = 1 THEN 2 ELSE h, IF w = 1 THEN 2 ELSE w)

InGrid(g, p) == p[1] < g.height /\ p[2] < g.width

\* A sample different from max, for storage beyond what the model keeps.
Other(max) == IF max = 0 THEN 1 ELSE 0

\* img->image[y][x]
At(g, p) == IF p \in DOMAIN g.image THEN g.image[p] ELSE Other(g.max)

NoGrid == [height |-> 0, width |-> 0, max |-> 0, image |-> <<>>]

\* Binarized grids (every sample 0 or max) with their reachable storage.
BinarizedGrids(maxDim, maxCells, maxVal) ==
    UNION { UNION { UNION {
        { [height |-> h, width |-> w, max |-> m, image |-> f] :
            f \in { g \in [StoreCells(h, w) -> {0, m, Other(m)}] :
                      /\ \A p \in Cells(h, w) : g[p] \in {0, m}
                      /\ \A p \in StoreCells(h, w) \ Cells(h, w) :
                            g[p] \in {m, Other(m)} } }
        : m \in 0 .. maxVal }
        : w \in { w0 \in 0 .. maxDim : h * w0 <= maxCells } }
        : h \in 0 .. maxDim }

(***************************************************************************)
(* label_region                                                            *)
(***************************************************************************)
\* p.x <= img->width-2, in size_t: width-2 wraps to at least SIZE_MAX-1
\* when width < 2, and every coordinate is below that.
LeDimMinus2(c, dim) == IF dim >= 2 THEN c <= dim - 2 ELSE TRUE

\* The neighbours the loop body examines, in the order of the source.
Neighbours(g, p) ==
    LET y == p[1]
        x == p[2]
        left == x >= 1
        right == LeDimMinus2(x, g.width)
        up == IF y >= 1
              THEN (IF left THEN << <<y - 1, x - 1>> >> ELSE <<>>)
                   \o << <<y - 1, x>> >>
                   \o (IF right THEN << <<y - 1, x + 1>> >> ELSE <<>>)
              ELSE <<>>
        mid == (IF left THEN << <<y, x - 1>> >> ELSE <<>>)
               \o (IF right THEN << <<y, x + 1>> >> ELSE <<>>)
        down == IF LeDimMinus2(y, g.height)
                THEN (IF left THEN << <<y + 1, x - 1>> >> ELSE <<>>)
                     \o << <<y + 1, x>> >>
                     \o (IF right THEN << <<y + 1, x + 1>> >> ELSE <<>>)
                ELSE <<>>
    IN  up \o mid \o down

\* a queue that admits one entry more than its capacity
QueueFull_OffByOne(q, cap) == Len(q) = cap + 1

\* rear - front == QUEUE_SIZE
QueueFull(q, cap) == Len(q) = cap

\* ENQ(_y, _x) on the state st = [image, queue, ok]: on a full queue the
\* function returns false; otherwise the point is queued and its sample
\* overwritten with the label.
ENQ(st, p, l, cap) ==
    IF QueueFull(st.queue, cap)
    THEN [st EXCEPT !.ok = FALSE]
    ELSE [st EXCEPT !.queue = Append(@, p),
                    !.image = IF p \in DOMAIN @ THEN [@ EXCEPT ![p] = l] ELSE @]

\* The eight guarded tests of one loop iteration, from the k-th on.
RECURSIVE Examine(_, _, _, _, _, _)
Examine(st, cands, k, max, l, cap) ==
    IF k > Len(cands) \/ ~st.ok
    THEN st
    ELSE LET c == cands[k]
             v == IF c \in DOMAIN st.image THEN st.image[c] ELSE Other(max)
         IN  Examine(IF v = max THEN ENQ(st, c, l, cap) ELSE st,
                     cands, k + 1, max, l, cap)

(***************************************************************************)
(* label_all, one action per step                                          *)
(***************************************************************************)
\* for (i ...) for (j ...): the position after (i, j)
NextJ == IF j + 1 < img.width THEN j + 1 ELSE 0
NextI == IF j + 1 < img.width THEN i ELSE i + 1

InLoop == i < img.height /\ j < img.width

\* img->image[i][j] != img->max: the scan moves on
label_all_skip ==
    /\ pc = "scan"
    /\ InLoop
    /\ At(img, <<i, j>>) # img.max
    /\ i' = NextI
    /\ j' = NextJ
    /\ UNCHANGED <<pc, ret, gridVars, qsize, l_val, lr, queue, ok, label_max, notLabVars>>

\* label_region(img, i, j, l_val++) up to its first ENQ(y, x)
label_all_call ==
    /\ pc = "scan"
    /\ InLoop
    /\ At(img, <<i, j>>) = img.max
    /\ LET st == ENQ([image |-> img.image, queue |-> <<>>, ok |-> TRUE],
                     <<i, j>>, l_val, qsize)
       IN  /\ img' = [img EXCEPT !.image = st.image]
           /\ queue' = st.queue
           /\ ok' = st.ok
           /\ pc' = IF st.ok THEN "fill" ELSE "returned"
    /\ lr' = [y |-> i, x |-> j, l_val |-> l_val]
    /\ l_val' = (l_val + 1) % UINT_RANGE
    /\ UNCHANGED <<ret, img0, qsize, i, j, label_max, notLabVars>>

\* one iteration of label_region's do-while: DEQ and the neighbour tests
label_region_loop ==
    /\ pc = "fill"
    /\ LET p == Head(queue)
           st == Examine([image |-> img.image, queue |-> Tail(queue), ok |-> TRUE],
                         Neighbours(img, p), 1, img.max, lr.l_val, qsize)
       IN  /\ img' = [img EXCEPT !.image = st.image]
           /\ queue' = st.queue
           /\ ok' = st.ok
           /\ pc' = IF ~st.ok \/ st.queue = <<>> THEN "returned" ELSE "fill"
    /\ UNCHANGED <<ret, img0, qsize, i, j, l_val, lr, label_max, notLabVars>>

\* if (!label_region(...)): queue overflowed
label_all_overflow ==
    /\ pc = "returned"
    /\ ~ok
    /\ label_max' = (l_val - 2) % UINT_RANGE
    /\ ret' = FALSE
    /\ pc' = "done"
    /\ UNCHANGED <<gridVars, qsize, i, j, l_val, lr, queue, ok, notLabVars>>

\* if (l_val == img->max): label reached max
label_all_reached_max ==
    /\ pc = "returned"
    /\ ok
    /\ l_val = img.max
    /\ label_max' = (l_val - 1) % UINT_RANGE
    /\ ret' = FALSE
    /\ pc' = "done"
    /\ UNCHANGED <<gridVars, qsize, i, j, l_val, lr, queue, ok, notLabVars>>

\* the region is labeled and the scan goes on
label_all_continue ==
    /\ pc = "returned"
    /\ ok
    /\ l_val # img.max
    /\ i' = NextI
    /\ j' = NextJ
    /\ pc' = "scan"
    /\ UNCHANGED <<ret, gridVars, qsize, l_val, lr, queue, ok, label_max, notLabVars>>

\* the loops are over: *label_max = l_val - 1; return true
label_all_return ==
    /\ pc = "scan"
    /\ ~InLoop
    /\ label_max' = (l_val - 1) % UINT_RANGE
    /\ ret' = TRUE
    /\ pc' = "done"
    /\ UNCHANGED <<gridVars, qsize, i, j, l_val, lr, queue, ok, notLabVars>>

\* QUEUE_SIZE is 65536 in the source and a parameter here.  LargeQueue is a
\* capacity no fill reaches as long as every storage cell is queued at most
\* once, as 65536 is for the images the program is run on.
LargeQueue == 2 * LabMaxCells

QueueSizes == (1 .. SmallQueue) \cup {LargeQueue}

InitLabel ==
    /\ pc = "scan"
    /\ img \in BinarizedGrids(LabMaxDim, LabMaxCells, LabMaxVal)
    /\ img0 = img
    /\ ret = FALSE
    /\ qsize \in QueueSizes
    /\ i = 0
    /\ j = 0
    /\ l_val = 1
    /\ lr = [y |-> 0, x |-> 0, l_val |-> 0]
    /\ queue = <<>>
    /\ ok = TRUE
    /\ label_max = 0
    /\ RsIdle /\ ThIdle /\ TmIdle /\ KmIdle /\ RaIdle

NextLabel ==
    \/ label_all_skip
    \/ label_all_call
    \/ label_region_loop
    \/ label_all_overflow
    \/ label_all_reached_max
    \/ label_all_continue
    \/ label_all_return

SpecLabel == InitLabel /\ [][NextLabel]_vars

(***************************************************************************)
(* Connected components of the grid handed to label_all                    *)
(***************************************************************************)
\* The grid's foreground pixels before labeling.
Foreground == { p \in Cells(img0.height, img0.width) : img0.image[p] = img0.max }

Adjacent(p, q) ==
    /\ p # q
    /\ p[1] - q[1] \in {-1, 0, 1}
    /\ p[2] - q[2] \in {-1, 0, 1}

RECURSIVE Reach(_)
Reach(S) ==
    LET N == S \cup { q \in Foreground : \E p \in S : Adjacent(p, q) }
    IN  IF N = S THEN S ELSE Reach(N)

\* The pixels joined to p by a path of 8-adjacent foreground pixels.
Component(p) == Reach({p})

\* row-major order
Before(p, q) == p[1] < q[1] \/ (p[1] = q[1] /\ p[2] < q[2])

Seed == <<lr.y, lr.x>>

(***************************************************************************)
(* C1..C5: labeling                                                        *)
(***************************************************************************)
\* C1 (as claimed, for max_value >= 1, where 0 and max_value differ): when
\* label_all returns success, background samples are still 0, foreground
\* samples hold a label in 1..label_max, and two foreground pixels hold the
\* same label exactly when a path of 8-adjacent foreground pixels joins them.
C1_CorrectLabeling ==
    (pc = "done" /\ ret /\ img0.max >= 1) =>
        /\ \A p \in Cells(img0.height, img0.width) :
              /\ img0.image[p] = 0 => img.image[p] = 0
              /\ img0.image[p] = img0.max => img.image[p] \in 1 .. label_max
        /\ \A p, q \in Foreground :
              (img.image[p] = img.image[q]) <=> (q \in Component(p))

\* C2 (as claimed, for max_value other than 2): on a grid whose foreground is
\* two non-adjacent pixels, label_all ends with label_max = 2, label 1 on the
\* pixel met first in row-major order and label 2 on the other.
C2_TwoPointsInScanOrder ==
    (pc = "done" /\ img0.max # 2) =>
        \A p, q \in Foreground :
            (Foreground = {p, q} /\ Before(p, q) /\ ~Adjacent(p, q)) =>
                /\ label_max = 2
                /\ img.image[p] = 1
                /\ img.image[q] = 2

C4_LabelMaxOnFailure ==
    (pc = "done" /\ ~ret) =>
        /\ \A p \in Foreground :
              img.image[p] \in 1 .. label_max =>
                  \A q \in Component(p) : img.image[q] = img.image[p]
        /\ \A p \in Foreground :
              (img.image[p] > label_max /\ img.image[p] # img.max) =>
                  /\ ~ok
                  /\ img.image[p] = label_max + 1
                  /\ p \in Component(Seed)

\* C5 (as claimed): label_all never writes a label equal to max_value.
C5_NoLabelEqualsMax ==
    pc \in {"fill", "returned"} => lr.l_val # img.max

(***************************************************************************)
(* Resampling: scale, rotate, affine_trans                                 *)
(*                                                                         *)
(* A real coordinate is a numerator over a positive denominator.  The      *)
(* arguments are drawn from values for which every double of the source    *)
(* is exact: scale factors with a power of two as numerator, theta = 0     *)
(* (sin = 0, cos = 1), centres in halves, integer affine coefficients      *)
(* with a determinant of magnitude 1 or 2.                                 *)
(***************************************************************************)
RsMaxDim == 2       \* largest height and width of a resampled grid
RsMaxCells == 4     \* largest height * width of a resampled grid
RsMaxVal == 2       \* largest max value of a resampled grid

\* Grids of any samples in 0..max, as read_image builds them.
GrayGrids(maxDim, maxCells, maxVal) ==
    UNION { UNION { UNION {
        { [height |-> h, width |-> w, max |-> m, image |-> f] :
            f \in [Cells(h, w) -> 0 .. m] }
        : m \in 0 .. maxVal }
        : w \in { w0 \in 0 .. maxDim : h * w0 <= maxCells } }
        : h \in 0 .. maxDim }

\* The interpolation at base (hb, wb) with offsets hd/hden and wd/wden:
\* the base pixel's neighbours weighted by the offsets, truncated to uint.
Interpolate(g, hb, wb, hd, hden, wd, wden) ==
    ( g.image[<<hb, wb>>] * (hden - hd) * (wden - wd)
    + g.image[<<hb + 1, wb>>] * hd * (wden - wd)
    + g.image[<<hb, wb + 1>>] * (hden - hd) * wd
    + g.image[<<hb + 1, wb + 1>>] * hd * wd ) \div (hden * wden)

\* an edge policy that copies the base pixel, as scale does
InverseMapped_CopyEdge(g, yn, xn, den) ==
    IF /\ 0 <= xn /\ xn <= (g.width - 1) * den
       /\ 0 <= yn /\ yn <= (g.height - 1) * den
    THEN LET h_base == yn \div den
             h_dist == yn % den
             w_base == xn \div den
             w_dist == xn % den
         IN  IF h_base = g.height - 1 \/ w_base = g.width - 1
             THEN g.image[<<h_base, w_base>>]
             ELSE Interpolate(g, h_base, w_base, h_dist, den, w_dist, den)
    ELSE 0

\* rotate's and affine_trans's pixel for the source coordinate
\* (yn/den, xn/den): 0 out of the source, 0 on its last row and column,
\* the interpolation elsewhere.
InverseMapped(g, yn, xn, den) ==
    IF /\ 0 <= xn /\ xn <= (g.width - 1) * den
       /\ 0 <= yn /\ yn <= (g.height - 1) * den
    THEN LET h_base == yn \div den
             h_dist == yn % den
             w_base == xn \div den
             w_dist == xn % den
         IN  IF h_base = g.height - 1 \/ w_base = g.width - 1
             THEN 0
             ELSE Interpolate(g, h_base, w_base, h_dist, den, w_dist, den)
    ELSE 0

\* round(): half away from zero, of the non-negative n/d
Round(n, d) == (2 * n + d) \div (2 * d)

\* tests that miss the zero-sized result
ScaleFails_NoZeroCheck(new_height, new_width) ==
    new_height > HEIGHT_MAX \/ new_width > WIDTH_MAX

\* scale's tests before it allocates: true when it returns false
ScaleFails(new_height, new_width) ==
    \/ new_height > HEIGHT_MAX \/ new_width > WIDTH_MAX
    \/ new_height = 0 \/ new_width = 0

\* scale's pixel (i, j): factors hf = hf[1]/hf[2] and wf = wf[1]/wf[2]
ScalePixel(g, hf, wf, y, x) ==
    LET h_base == (y * hf[2]) \div hf[1]
        h_dist == (y * hf[2]) % hf[1]
        w_base == (x * wf[2]) \div wf[1]
        w_dist == (x * wf[2]) % wf[1]
    IN  IF h_base = g.height - 1 \/ w_base = g.width - 1
        THEN g.image[<<h_base, w_base>>]
        ELSE Interpolate(g, h_base, w_base, h_dist, hf[1], w_dist, wf[1])

\* The scale factors tried: 1/4, 1/2, 1, 2 and one that exceeds every bound.
Factors == { <<1, 4>>, <<1, 2>>, <<1, 1>>, <<2, 1>>, <<HEIGHT_MAX + 1, 1>> }

\* scale(img, height_factor, width_factor)
scale ==
    /\ pc = "ready"
    /\ \E hf \in Factors, wf \in Factors :
        LET new_height == Round(hf[1] * img.height, hf[2])
            new_width == Round(wf[1] * img.width, wf[2])
        IN  /\ call' = [op |-> "scale", height_factor |-> hf, width_factor |-> wf,
                        new_height |-> new_height, new_width |-> new_width]
            /\ IF ScaleFails(new_height, new_width)
               THEN /\ ret' = FALSE
                    /\ img' = img
               ELSE /\ ret' = TRUE
                    /\ img' = [height |-> new_height, width |-> new_width,
                               max |-> img.max,
                               image |-> [p \in Cells(new_height, new_width) |->
                                            ScalePixel(img, hf, wf, p[1], p[2])]]
    /\ pc' = "done"
    /\ UNCHANGED <<img0, labVars, thVars, tmVars, kmVars, raVars>>

\* The centres tried, in halves: 0, 1/2, 1, 3/2.
Centres2 == 0 .. 3

\* rotate(img, theta, x0, y0) with sint = sin(theta), cost = cos(theta),
\* x0 = x2/2 and y0 = y2/2
RotatePixel(g, sint, cost, x2, y2, y, x) ==
    InverseMapped(g,
        (0 - sint) * (2 * x - x2) + cost * (2 * y - y2) + y2,
        cost * (2 * x - x2) + sint * (2 * y - y2) + x2,
        2)

rotate ==
    /\ pc = "ready"
    /\ \E x2 \in Centres2, y2 \in Centres2 :
        /\ call' = [op |-> "rotate", sint |-> 0, cost |-> 1, x0 |-> <<x2, 2>>,
                    y0 |-> <<y2, 2>>]
        /\ img' = [img EXCEPT !.image = [p \in Cells(img.height, img.width) |->
                                            RotatePixel(img, 0, 1, x2, y2, p[1], p[2])]]
    /\ ret' = TRUE
    /\ pc' = "done"
    /\ UNCHANGED <<img0, labVars, thVars, tmVars, kmVars, raVars>>

\* The affine coefficients tried.
Coefficients == {-1, 0, 1}
Translations == {0, 1}

Det(args) == args.a * args.e - args.b * args.d

\* affine_trans's pixel (i, j): the inverse transform's coordinate over |det|
AffinePixel(g, args, y, x) ==
    LET det == Det(args)
        sgn == IF det < 0 THEN -1 ELSE 1
        xn == args.e * (x - args.c) - args.b * (y - args.f)
        yn == (0 - args.d) * (x - args.c) + args.a * (y - args.f)
    IN  InverseMapped(g, sgn * yn, sgn * xn, sgn * det)

\* affine_trans(img, args)
affine_trans ==
    /\ pc = "ready"
    /\ \E a \in Coefficients, b \in Coefficients, d \in Coefficients,
          e \in Coefficients, c \in Translations, f \in Translations :
        LET args == [a |-> a, b |-> b, c |-> c, d |-> d, e |-> e, f |-> f]
        IN  /\ call' = [op |-> "affine_trans", args |-> args]
            /\ IF Det(args) = 0
               THEN /\ ret' = FALSE
                    /\ img' = img
               ELSE /\ ret' = TRUE
                    /\ img' = [img EXCEPT !.image =
                                 [p \in Cells(img.height, img.width) |->
                                     AffinePixel(img, args, p[1], p[2])]]
    /\ pc' = "done"
    /\ UNCHANGED <<img0, labVars, thVars, tmVars, kmVars, raVars>>

InitResample ==
    /\ pc = "ready"
    /\ img \in GrayGrids(RsMaxDim, RsMaxCells, RsMaxVal)
    /\ img0 = img
    /\ ret = FALSE
    /\ call = [op |-> "none"]
    /\ LabIdle /\ ThIdle /\ TmIdle /\ KmIdle /\ RaIdle

NextResample == scale \/ rotate \/ affine_trans

SpecResample == InitResample /\ [][NextResample]_vars

(***************************************************************************)
(* C6, C7: resampling                                                      *)
(***************************************************************************)
Identity == [a |-> 1, b |-> 0, c |-> 0, d |-> 0, e |-> 1, f |-> 0]

IdentityCall ==
    /\ pc = "done"
    /\ \/ call.op = "rotate" /\ call.sint = 0 /\ call.cost = 1
       \/ call.op = "affine_trans" /\ call.args = Identity

\* C6 (as claimed): rotate with theta = 0 and affine_trans with the identity
\* matrix leave every pixel, the width, the height and max as they were.
C6_IdentityLeavesGrid ==
    IdentityCall => img = img0

\* C6 (amended): they leave the width, the height and max as they were and
\* every pixel outside the last row and the last column at its value; the
\* pixels of the last row and of the last column become 0.
C6_IdentityButLastRowAndColumn ==
    IdentityCall =>
        /\ img.height = img0.height
        /\ img.width = img0.width
        /\ img.max = img0.max
        /\ \A p \in Cells(img0.height, img0.width) :
              img.image[p] = IF p[1] = img0.height - 1 \/ p[2] = img0.width - 1
                             THEN 0
                             ELSE img0.image[p]

C6_Witness ==
    /\ IdentityCall
    /\ call.op = "affine_trans"
    /\ img0.height = 2 /\ img0.width = 2
    /\ img0.image[<<0, 0>>] > 0
    /\ img0.image[<<1, 1>>] > 0
    /\ img.image[<<0, 0>>] = img0.image[<<0, 0>>]
    /\ img.image[<<1, 1>>] = 0

\* C7: scale with a rounded new dimension of 0 or above the maximum, and
\* affine_trans with a*e - b*d = 0, return failure and leave the grid's
\* width, height, max and samples as they were.
C7_DegenerateFailsUntouched ==
    /\ (pc = "done" /\ call.op = "scale"
          /\ \/ call.new_height = 0 \/ call.new_width = 0
             \/ call.new_height > HEIGHT_MAX \/ call.new_width > WIDTH_MAX)
       => (ret = FALSE /\ img = img0)
    /\ (pc = "done" /\ call.op = "affine_trans" /\ Det(call.args) = 0)
       => (ret = FALSE /\ img = img0)

C7_Witness ==
    /\ pc = "done"
    /\ ret = FALSE
    /\ call.op = "scale"
    /\ call.new_height = 0
    /\ img0.height = 1 /\ img0.width = 2
    /\ img0.image[<<0, 1>>] > 0
    /\ img = img0

(***************************************************************************)
(* Thresholding: find_threshold, binarize                                  *)
(*                                                                         *)
(* omega[i] and mu[i] are kept as their numerators over total_px, and a    *)
(* variance as a numerator over a denominator, so that the comparisons of  *)
(* the source are decided exactly.                                         *)
(***************************************************************************)
ThMaxDim == 4       \* largest height and width of a thresholded grid
ThMaxCells == 4     \* largest height * width of a thresholded grid
ThMaxVal == 3       \* largest max value of a thresholded grid

\* ni[v]: the number of pixels of value v
Ni(g, v) == Cardinality({ p \in Cells(g.height, g.width) : g.image[p] = v })

\* omega[k] * total_px
RECURSIVE Omega(_, _)
Omega(g, k) == IF k = 0 THEN Ni(g, 0) ELSE Omega(g, k - 1) + Ni(g, k)

\* mu[k] * total_px
RECURSIVE Mu(_, _)
Mu(g, k) == IF k = 0 THEN 0 ELSE Mu(g, k - 1) + k * Ni(g, k)

\* a comparison that takes an equal variance for a greater one
VarGreater_OrEqual(vn, vd, mn, md) == vn * md >= mn * vd

\* var > max_var, for var = vn/vd and max_var = mn/md
VarGreater(vn, vd, mn, md) == vn * md > mn * vd

\* The values the search loop can return from candidate k on, with
\* max_var = mn/md reached at candidate max_var_val (omega numerator bo).
\* The variance (mu[max]*omega[k] - mu[k])^2 / (omega[k]*(1 - omega[k])) is
\* kept with the common factor total_px^2 taken out of both sides.
\* Two candidates with the same omega have the same doubles (only 0.0 was
\* added in between) and so the same variance; two candidates of different
\* omega whose variances are equal as reals are computed from different
\* doubles, and the rounding decides which the source finds greater: the
\* model allows both.
RECURSIVE MaxVariance(_, _, _, _, _, _)
MaxVariance(g, k, mn, md, bo, max_var_val) ==
    LET total_px == g.width * g.height
        om == Omega(g, k)
        vn == (Mu(g, g.max) * om - Mu(g, k) * total_px)
              * (Mu(g, g.max) * om - Mu(g, k) * total_px)
        vd == om * (total_px - om)
        keep == MaxVariance(g, k + 1, mn, md, bo, max_var_val)
        take == MaxVariance(g, k + 1, vn, vd, om, k)
    IN  IF k > g.max THEN {max_var_val}
        ELSE IF om = 0 THEN keep
        ELSE IF om = total_px THEN {max_var_val}
        ELSE IF VarGreater(vn, vd, mn, md) THEN take
        ELSE IF vn * md = mn * vd /\ om # bo THEN keep \cup take
        ELSE keep

\* The values find_threshold(img) can return.  With total_px = 0 every omega
\* is a NaN: no test of the loop succeeds and max is returned.
FindThreshold(g) ==
    IF g.width * g.height = 0
    THEN {g.max}
    ELSE MaxVariance(g, 0, 0, 1, 0, g.max)

\* binarize(img, th)
Binarize(g, t) ==
    [g EXCEPT !.image = [p \in Cells(g.height, g.width) |->
                            IF g.image[p] > t THEN g.max ELSE 0]]

find_threshold ==
    /\ pc \in {"ready", "binarized"}
    /\ IF pc = "ready"
       THEN /\ th' \in FindThreshold(img)
            /\ th2' = th2
            /\ pc' = "found"
       ELSE /\ th2' \in FindThreshold(img)
            /\ th' = th
            /\ pc' = "done"
    /\ UNCHANGED <<ret, gridVars, labVars, rsVars, tmVars, kmVars, raVars>>

binarize ==
    /\ pc = "found"
    /\ img' = Binarize(img, th)
    /\ pc' = "binarized"
    /\ UNCHANGED <<ret, img0, labVars, rsVars, thVars, tmVars, kmVars, raVars>>

InitThreshold ==
    /\ pc = "ready"
    /\ img \in GrayGrids(ThMaxDim, ThMaxCells, ThMaxVal)
    /\ img0 = img
    /\ ret = FALSE
    /\ th = 0
    /\ th2 = 0
    /\ LabIdle /\ RsIdle /\ TmIdle /\ KmIdle /\ RaIdle

NextThreshold == find_threshold \/ binarize

SpecThreshold == InitThreshold /\ [][NextThreshold]_vars

(***************************************************************************)
(* C8: thresholding                                                        *)
(***************************************************************************)
\* C8 (as claimed): find_threshold returns t in 0..max, and on the grid
\* binarized at t it returns t or max.
C8_FixedPoint ==
    /\ pc \in {"found", "binarized", "done"} => th \in 0 .. img.max
    /\ pc = "done" => th2 \in {th, img.max}

\* C8 (amended): find_threshold returns t in 0..max, and on the grid
\* binarized at t it returns 0 when the binarized grid holds both 0 and max,
\* and max when all its samples are equal.
C8_ZeroOrMax ==
    /\ pc \in {"found", "binarized", "done"} => th \in 0 .. img.max
    /\ pc = "done" =>
          th2 = IF \E p, q \in DOMAIN img.image : img.image[p] # img.image[q]
                THEN 0
                ELSE img.max

C8_Witness ==
    /\ pc = "done"
    /\ th > 0
    /\ th < img.max
    /\ th2 = 0

(***************************************************************************)
(* Template matching: find_nearest_region                                  *)
(***************************************************************************)
TmMaxCells == 6     \* largest number of pixels of target and template together
TmMaxVal == 1       \* largest sample of target and template

\* ULLONG_MAX is 2^64 - 1 in C; the model takes the largest integer TLC
\* holds.  No sum of differences of the model comes near either.
ULLONG_MAX == 2147483647

\* DIFF(x, y)
DIFF(x, y) == IF x > y THEN x - y ELSE y - x

GridsOf(h, w, m) ==
    { [height |-> h, width |-> w, max |-> m, image |-> f] :
        f \in [Cells(h, w) -> 0 .. m] }

\* A target and a template no larger than it on both axes.
MatchPairs(maxCells, maxVal) ==
    UNION { UNION { UNION { UNION {
        GridsOf(h, w, maxVal) \X GridsOf(tph, tpw, maxVal)
        : tpw \in { t \in 0 .. w : h * w + tph * t <= maxCells } }
        : tph \in 0 .. h }
        : w \in { w0 \in 0 .. maxCells : h * w0 <= maxCells } }
        : h \in 0 .. maxCells }

\* an early exit that lets an equal distance through
Abandon_OnlyGreater(dist, min_dist) == dist > min_dist

\* if (dist >= min_dist) goto LARGER
Abandon(dist, min_dist) == dist >= min_dist

\* The loops over the template's pixels at placement (y, x), from the n-th
\* pixel on in row-major order: the distance, or -1 once LARGER is reached.
RECURSIVE PlacementDist(_, _, _, _, _, _, _)
PlacementDist(tgt, t, y, x, n, dist, min_dist) ==
    IF n = t.height * t.width
    THEN dist
    ELSE LET k == n \div t.width
             l == n % t.width
             d == dist + DIFF(tgt.image[<<y + k, x + l>>], t.image[<<k, l>>])
         IN  IF Abandon(d, min_dist)
             THEN -1
             ELSE PlacementDist(tgt, t, y, x, n + 1, d, min_dist)

\* The loops over the placements, from the n-th on in row-major order, with
\* st = [min_dist, nearest].
RECURSIVE Search(_, _, _, _)
Search(tgt, t, n, st) ==
    LET rows == tgt.height - t.height + 1
        cols == tgt.width - t.width + 1
        y == n \div cols
        x == n % cols
        dist == PlacementDist(tgt, t, y, x, 0, 0, st.min_dist)
    IN  IF n = rows * cols
        THEN st
        ELSE Search(tgt, t, n + 1,
                    IF dist = -1
                    THEN st
                    ELSE [min_dist |-> dist, nearest |-> <<y, x>>])

\* find_nearest_region(tgt, tpl, nearest)
find_nearest_region ==
    /\ pc = "ready"
    /\ LET st == Search(img, tpl, 0, [min_dist |-> ULLONG_MAX, nearest |-> nearest])
       IN  /\ ret' = st.min_dist
           /\ nearest' = st.nearest
    /\ pc' = "done"
    /\ UNCHANGED <<gridVars, tpl, labVars, rsVars, thVars, kmVars, raVars>>

InitMatch ==
    /\ pc = "ready"
    /\ \E pr \in MatchPairs(TmMaxCells, TmMaxVal) :
          /\ img = pr[1]
          /\ tpl = pr[2]
    /\ img0 = img
    /\ ret = 0
    \* the caller's Point is not initialised
    /\ nearest \in {<<0, 0>>, <<TmMaxCells, TmMaxCells>>}
    /\ LabIdle /\ RsIdle /\ ThIdle /\ KmIdle /\ RaIdle

NextMatch == find_nearest_region

SpecMatch == InitMatch /\ [][NextMatch]_vars

(***************************************************************************)
(* C9: template matching                                                   *)
(***************************************************************************)
\* The top-left placements where the template fits.
Placements ==
    (0 .. img.height - tpl.height) \X (0 .. img.width - tpl.width)

\* The full sum of absolute differences at placement p.
RECURSIVE SumDiff(_, _)
SumDiff(p, S) ==
    IF S = {} THEN 0
    ELSE LET c == CHOOSE c \in S : TRUE
         IN  DIFF(img.image[<<p[1] + c[1], p[2] + c[2]>>], tpl.image[c])
             + SumDiff(p, S \ {c})

FullDist(p) == SumDiff(p, Cells(tpl.height, tpl.width))

KmMaxN == 4         \* largest number of features
KmMaxFeat == 4      \* largest feature value

\* Larger than every distance between two features (a 32-bit stand-in for
\* the 64-bit value; the features here are far below both).
SIZE_MAX == 2147483647

n_feats == Cardinality(DOMAIN feats)

Zeros(n) == [k \in 0 .. n - 1 |-> 0]

\* All arrays of n features.
FeatArrays(n, maxFeat) == [0 .. n - 1 -> 0 .. maxFeat]

\* The test that moves a feature to cluster j (line 833).
Closer(dist, min_dist) == dist < min_dist

\* The inner loop over the clusters (lines 830-837) from cluster k on:
\* the index the feature f ends with.
RECURSIVE Nearest(_, _, _, _, _)
Nearest(c, f, k, min_dist, idx) ==
    IF k >= n_clsts THEN idx
    ELSE LET dist == DIFF(c[k], f)
         IN  IF Closer(dist, min_dist)
             THEN Nearest(c, f, k + 1, dist, k)
             ELSE Nearest(c, f, k + 1, min_dist, idx)

\* The loop over the features (lines 829-843) from feature k on.
RECURSIVE Assign(_, _)
Assign(st, k) ==
    IF k >= n_feats THEN st
    ELSE LET to == Nearest(centre, feats[k], 0, SIZE_MAX, st.idx_clst[k])
         IN  Assign([idx_clst  |-> [st.idx_clst EXCEPT ![k] = to],
                     n_membres |-> [st.n_membres EXCEPT ![to] = @ + 1],
                     sum_feats |-> [st.sum_feats EXCEPT ![to] = @ + feats[k]]],
                    k + 1)

\* The loop over the clusters (lines 846-862) from cluster k on.  It stops
\* at the first cluster without members, where the assertion fails.
RECURSIVE Recompute(_, _)
Recompute(st, k) ==
    IF k >= n_clsts THEN st
    ELSE IF st.n_membres[k] = 0 THEN [st EXCEPT !.failed = TRUE]
    ELSE LET old_centre == st.centre[k]
             new_centre == st.sum_feats[k] \div st.n_membres[k]
         IN  Recompute([centre    |-> [st.centre EXCEPT ![k] = new_centre],
                        n_membres |-> [st.n_membres EXCEPT ![k] = 0],
                        sum_feats |-> [st.sum_feats EXCEPT ![k] = 0],
                        finished  |-> IF new_centre # old_centre
                                      THEN FALSE ELSE st.finished,
                        failed    |-> FALSE],
                       k + 1)

\* Lines 806-823: every feature starts in cluster 0, the clusters are
\* allocated zeroed, and the centres are the first n_clsts features.
kmeans_begin ==
    /\ pc = "km_start"
    /\ n_feats >= n_clsts
    /\ idx_clst' = Zeros(n_feats)
    /\ centre' = [k \in 0 .. n_clsts - 1 |-> feats[k]]
    /\ n_membres' = Zeros(n_clsts)
    /\ sum_feats' = Zeros(n_clsts)
    /\ pc' = "assign"
    /\ UNCHANGED <<feats, n_clsts, finished>>
    /\ UNCHANGED <<gridVars, ret, labVars, rsVars, thVars, tmVars, raVars>>

\* Lines 827-843.
kmeans_assign ==
    /\ pc = "assign"
    /\ finished' = TRUE
    /\ LET st == Assign([idx_clst  |-> idx_clst,
                         n_membres |-> n_membres,
                         sum_feats |-> sum_feats], 0)
       IN  /\ idx_clst' = st.idx_clst
           /\ n_membres' = st.n_membres
           /\ sum_feats' = st.sum_feats
    /\ pc' = "recompute"
    /\ UNCHANGED <<feats, n_clsts, centre>>
    /\ UNCHANGED <<gridVars, ret, labVars, rsVars, thVars, tmVars, raVars>>

\* Lines 846-863.
kmeans_recompute ==
    /\ pc = "recompute"
    /\ LET st == Recompute([centre    |-> centre,
                            n_membres |-> n_membres,
                            sum_feats |-> sum_feats,
                            finished  |-> finished,
                            failed    |-> FALSE], 0)
       IN  /\ centre' = st.centre
           /\ n_membres' = st.n_membres
           /\ sum_feats' = st.sum_feats
           /\ finished' = st.finished
           /\ pc' = IF st.failed THEN "abort"
                    ELSE IF st.finished THEN "done" ELSE "assign"
    /\ UNCHANGED <<feats, n_clsts, idx_clst>>
    /\ UNCHANGED <<gridVars, ret, labVars, rsVars, thVars, tmVars, raVars>>

\* The call: n_feats >= n_clsts >= 1 features with whatever cluster indices
\* the caller left in them.
InitKmeans ==
    /\ pc = "km_start"
    /\ \E n \in 1 .. KmMaxN :
          /\ feats \in FeatArrays(n, KmMaxFeat)
          /\ n_clsts \in 1 .. n
          /\ \E v \in {0, n} : idx_clst = [k \in 0 .. n - 1 |-> v]
    /\ centre = <<>>
    /\ n_membres = <<>>
    /\ sum_feats = <<>>
    /\ finished = FALSE
    /\ img = NoGrid
    /\ img0 = NoGrid
    /\ ret = 0
    /\ LabIdle /\ RsIdle /\ ThIdle /\ TmIdle /\ RaIdle

NextKmeans == kmeans_begin \/ kmeans_assign \/ kmeans_recompute

\* The function runs to completion once called: a step that can be taken
\* is taken.
SpecKmeans == InitKmeans /\ [][NextKmeans]_vars /\ WF_vars(NextKmeans)

(***************************************************************************)
(* C10: termination of k-means                                             *)
(***************************************************************************)
\* C10: for every feature list with n >= k >= 1, cluster_by_kmeans reaches
\* an iteration in which no centre changes and the loop exits; the centres
\* never cycle.
C10_Converges == <>(pc = "done" /\ finished)

(***************************************************************************)
(* C11: the assertion on empty clusters                                    *)
(***************************************************************************)
\* C11: for every feature list with n >= k, every cluster has at least one
\* member when the centres are recomputed, in every iteration: the
\* assertion n_membres != 0 never fails.
C11_EveryClusterHasMember ==
    /\ pc = "recompute" => \A k \in 0 .. n_clsts - 1 : n_membres[k] # 0
    /\ pc # "abort"

(***************************************************************************)
(* extract_face: heuristic region selection                                *)
(*                                                                         *)
(* img is orig, mask the label map, ps the Props array of which only the   *)
(* fields extract_face reads (area, deg) are kept.  The threshold          *)
(* total_area/100 is 0 below 100 pixels, so the masks are built from runs  *)
(* of equal labels in row-major order, long enough to reach it.            *)
(***************************************************************************)
FaceMaxLabel == 2   \* largest label of a mask, and largest label_max
FaceMaxHeight == 2  \* largest height of a mask
FaceMaxVal == 2     \* largest sample of orig

\* The lengths of the runs of one label.
RunLengths == {0, 1, 2, 100}

\* Orientations get_region_props reports for which the score is exact in
\* double arithmetic: (90 - deg) / 90.0 is 1, 0.5 and 0.
DegSamples == {0, 45, 90}

\* The label of the n-th pixel in row-major order when label l fills a run
\* of runs[l] pixels, label 0 first.
RECURSIVE LabelAt(_, _, _)
LabelAt(runs, l, n) ==
    IF n < runs[l] THEN l ELSE LabelAt(runs, l + 1, n - runs[l])

RECURSIVE RunTotal(_, _)
RunTotal(runs, l) ==
    IF l \notin DOMAIN runs THEN 0 ELSE runs[l] + RunTotal(runs, l + 1)

RunGrid(runs, h, w, m) ==
    [height |-> h, width |-> w, max |-> m,
     image |-> [c \in Cells(h, w) |-> LabelAt(runs, 0, c[1] * w + c[2])]]

\* An original of the given shape: the repeating ramp 0, 1, .. m.
RampGrid(h, w, m) ==
    [height |-> h, width |-> w, max |-> m,
     image |-> [c \in Cells(h, w) |-> (c[1] * w + c[2]) % (m + 1)]]

\* The comparison that replaces the best label so far (line 689).
Better_OrEqual(max_score, score) == max_score <= score

Better(max_score, score) == max_score < score

\* area < total_area/100, in size_t (line 684)
TooSmall(area, total_area) == area < total_area \div 100

\* 90 * rightness, where rightness = 1 - ((90 - deg) / 90.0) (line 686)
Rightness90(deg) == 90 - (90 - deg)

\* 90 * score (line 687)
Score90(p) == p.area * Rightness90(p.deg)

\* The loop over the labels (lines 681-693) from label k on: max_index.
RECURSIVE Select(_, _, _, _)
Select(k, total_area, max_score, idx) ==
    IF k > label_max THEN idx
    ELSE IF TooSmall(ps[k].area, total_area)
         THEN Select(k + 1, total_area, max_score, idx)
    ELSE IF Better(max_score, Score90(ps[k]))
         THEN Select(k + 1, total_area, Score90(ps[k]), k)
    ELSE Select(k + 1, total_area, max_score, idx)

\* Lines 678-705.  Not finding a face is reported on stderr and by
\* returning early; the model keeps it as max_index = 0.
extract_face ==
    /\ pc = "face_start"
    /\ LET total_area == img.width * img.height
           idx == Select(1, total_area, 0, 0)
       IN  /\ max_index' = idx
           /\ img' = IF idx = 0 THEN img
                     ELSE [img EXCEPT !.image =
                             [c \in Cells(img.height, img.width) |->
                                 IF mask.image[c] # idx THEN 0
                                 ELSE img.image[c]]]
    /\ pc' = "done"
    /\ UNCHANGED <<ret, img0, mask, ps>>
    /\ UNCHANGED <<qsize, i, j, l_val, lr, queue, ok, label_max>>
    /\ UNCHANGED <<rsVars, thVars, tmVars, kmVars>>

\* The number of pixels of the mask that hold label l.
Area(l) == Cardinality({c \in Cells(mask.height, mask.width) : mask.image[c] = l})

\* The call: a mask, an original of the same shape, label_max and the
\* Props of the labels 0 .. label_max, with the areas the mask has.  The
\* entry of label 0 is not read.
InitFace ==
    /\ pc = "face_start"
    /\ \E runs \in [0 .. FaceMaxLabel -> RunLengths] :
       \E h \in 0 .. FaceMaxHeight :
       \E w \in 0 .. RunTotal(runs, 0) :
          /\ h * w = RunTotal(runs, 0)
          /\ mask = RunGrid(runs, h, w, FaceMaxLabel)
          /\ img = RampGrid(h, w, FaceMaxVal)
    /\ img0 = img
    /\ label_max \in 0 .. FaceMaxLabel
    /\ \E degs \in [1 .. label_max -> DegSamples] :
          ps = [l \in 0 .. label_max |->
                  [area |-> Area(l), deg |-> IF l = 0 THEN 0 ELSE degs[l]]]
    /\ max_index = 0
    /\ ret = 0
    /\ qsize = 0 /\ i = 0 /\ j = 0 /\ l_val = 0
    /\ lr = [y |-> 0, x |-> 0, l_val |-> 0]
    /\ queue = <<>> /\ ok = TRUE
    /\ RsIdle /\ ThIdle /\ TmIdle /\ KmIdle

NextFace == extract_face

SpecFace == InitFace /\ [][NextFace]_vars

(***************************************************************************)
(* C12: extract_face                                                       *)
(***************************************************************************)
\* orig with every pixel whose mask value is not label l set to 0.
OnlyLabel(l) ==
    [img0 EXCEPT !.image =
        [c \in Cells(img0.height, img0.width) |->
            IF mask.image[c] = l THEN img0.image[c] ELSE 0]]

\* 90 times the score area * (1 - (90 - deg)/90) of label l.
ScoreOf(l) == ps[l].area * ps[l].deg

\* C12 (as claimed): extract_face reports not-found and leaves the image
\* unchanged exactly when no label in [1, label_max] has an area of at
\* least 1% of the image area; otherwise it picks the qualifying label of
\* maximum score and sets to 0 every pixel whose mask value is not that
\* label, leaving the others unchanged.  (A label without pixels is not
\* counted as qualifying, whatever the image area.)
C12_NotFoundIffNoneQualifies ==
    pc = "done" =>
        LET total == img0.width * img0.height
            Q == {l \in 1 .. label_max :
                    ps[l].area >= 1 /\ 100 * ps[l].area >= total}
        IN  /\ Q = {} => (max_index = 0 /\ img = img0)
            /\ Q # {} => /\ max_index \in Q
                         /\ \A l \in Q : ScoreOf(l) <= ScoreOf(max_index)
                         /\ img = OnlyLabel(max_index)

\* C12 (amended): the labels that count are those in [1, label_max] with an
\* area of at least total_area/100 rounded down and a score above 0;
\* not-found (image unchanged) exactly when there is none, otherwise the
\* lowest label among those of maximum score wins and every pixel whose
\* mask value is not that label is set to 0, the others left unchanged.
C12_PositiveScoreFirstOfMaximum ==
    pc = "done" =>
        LET total == img0.width * img0.height
            Q == {l \in 1 .. label_max :
                    ps[l].area >= total \div 100 /\ ScoreOf(l) > 0}
        IN  /\ Q = {} => (max_index = 0 /\ img = img0)
            /\ Q # {} => /\ max_index \in Q
                         /\ \A l \in Q :
                               /\ ScoreOf(l) <= ScoreOf(max_index)
                               /\ ScoreOf(l) = ScoreOf(max_index)
                                     => l >= max_index
                         /\ img = OnlyLabel(max_index)

\* a label wins and pixels are cleared, while a label of higher rightness
\* is left out because its area is below total_area/100
C12_Witness ==
    /\ pc = "done"
    /\ max_index # 0
    /\ img # img0
    /\ \E l \in 1 .. label_max :
          /\ ps[l].area >= 1
          /\ ps[l].deg > ps[max_index].deg
          /\ ps[l].area < (img0.width * img0.height) \div 100

(***************************************************************************)
(* get_region_props: area, centre and orientation of every label           *)
(*                                                                         *)
(* The sums and the corrected moments are integers here, so the doubles    *)
(* m20, m02 and m11 are exact.  The orientation is the whole number of     *)
(* degrees in |0.5 * atan2(y, x)|: it is found by comparing y / x with the *)
(* tangents of 2, 4, .. 88 degrees, kept to six decimals, which no ratio   *)
(* of the integers met here comes near.                                    *)
(***************************************************************************)
\* tan(2k degrees) * 10^6 for k = 1 .. 44
Tan2E6 == <<
    34921, 69927, 105104, 140541, 176327, 212557,
    249328, 286745, 324920, 363970, 404026, 445229,
    487733, 531709, 577350, 624869, 674509, 726543,
    781286, 839100, 900404, 965689, 1035530, 1110613,
    1191754, 1279942, 1376382, 1482561, 1600335, 1732051,
    1880726, 2050304, 2246037, 2475087, 2747477, 3077684,
    3487414, 4010781, 4704630, 5671282, 7115370, 9514364,
    14300666, 28636253 >>

Abs(n) == IF n < 0 THEN -n ELSE n

\* |0.5 * atan2(y, x)| * 180 / PI >= k, for k in 1 .. 90
AtLeastDeg(k, y, x) ==
    IF k < 45 THEN x <= 0 \/ Abs(y) * 1000000 >= x * Tan2E6[k]
    ELSE IF k = 45 THEN x <= 0
    ELSE IF k < 90 THEN x < 0 /\ Abs(y) * 1000000 <= (-x) * Tan2E6[90 - k]
    ELSE x < 0 /\ y = 0

\* (uint)(fabs(0.5 * atan2(y, x) * 180 / PI)) (lines 663-664); atan2(0, 0)
\* is 0.
Deg(y, x) ==
    IF y = 0 /\ x = 0 THEN 0
    ELSE Cardinality({k \in 1 .. 90 : AtLeastDeg(k, y, x)})

\* The first loop (lines 639-651) over the pixels S of one label.
RECURSIVE Accumulate(_)
Accumulate(S) ==
    IF S = {}
    THEN [area |-> 0, xcenter |-> 0, ycenter |-> 0,
          m20 |-> 0, m02 |-> 0, m11 |-> 0]
    ELSE LET c == CHOOSE c \in S : TRUE
             r == Accumulate(S \ {c})
         IN  [area |-> r.area + 1,
              xcenter |-> r.xcenter + c[2],
              ycenter |-> r.ycenter + c[1],
              m20 |-> r.m20 + c[2] * c[2],
              m02 |-> r.m02 + c[1] * c[1],
              m11 |-> r.m11 + c[1] * c[2]]

\* The pixels of the grid that hold the value l.
PixelsOf(l) == {c \in Cells(img.height, img.width) : img.image[c] = l}

\* a /= area in size_t where the division does not trap: dividing by 0 is
\* undefined, and yields 0 on the machines that go on.
Quotient(a, area) == IF area = 0 THEN 0 ELSE a \div area

\* The second loop (lines 653-665) for one label.
Finish(r) ==
    LET xc == Quotient(r.xcenter, r.area)
        yc == Quotient(r.ycenter, r.area)
        m20_cor == r.m20 - r.area * xc * xc
        m11_cor == r.m11 - r.area * xc * yc
        m02_cor == r.m02 - r.area * yc * yc
    IN  [area |-> r.area, xcenter |-> xc, ycenter |-> yc,
         m20 |-> r.m20, m02 |-> r.m02, m11 |-> r.m11,
         deg |-> Deg(2 * m11_cor, m20_cor - m02_cor)]

\* Lines 636-668, called with the label map and the label_max of a
\* successful label_all.  A label without pixels makes line 656 divide by
\* 0: the program is stopped by the trap, or goes on with the quotient 0.
get_region_props ==
    /\ pc = "done"
    /\ ret = TRUE
    /\ \/ /\ \E l \in 0 .. label_max : PixelsOf(l) = {}
          /\ pc' = "props_trap"
          /\ ps' = ps
       \/ /\ ps' = [l \in 0 .. label_max |-> Finish(Accumulate(PixelsOf(l)))]
          /\ pc' = "props_done"
    /\ UNCHANGED <<ret, gridVars, labVars, mask, max_index>>
    /\ UNCHANGED <<rsVars, thVars, tmVars, kmVars>>

NextProps == NextLabel \/ get_region_props

SpecProps == InitLabel /\ [][NextProps]_vars

(***************************************************************************)
(* C13: region properties                                                  *)
(***************************************************************************)
RECURSIVE SumCoord(_, _)
SumCoord(S, k) ==
    IF S = {} THEN 0
    ELSE LET c == CHOOSE c \in S : TRUE
         IN  c[k] + SumCoord(S \ {c}, k)

\* C13: for the label map and label_max of a successful label_all,
\* get_region_props completes, and for every label l in [0, label_max],
\* the background label 0 included, the area is the number of pixels of
\* value l, it is not 0, and the centre is (sum of columns)/area,
\* (sum of rows)/area.  (Stated for the grids of at least one pixel and a
\* max of at least 1.)
C13_PropsDefined ==
    (/\ pc \in {"props_done", "props_trap"}
     /\ img.height * img.width >= 1
     /\ img.max >= 1) =>
        /\ pc = "props_done"
        /\ \A l \in 0 .. label_max :
              /\ ps[l].area = Cardinality(PixelsOf(l))
              /\ ps[l].area # 0
              /\ ps[l].area * ps[l].xcenter <= SumCoord(PixelsOf(l), 2)
              /\ SumCoord(PixelsOf(l), 2) < ps[l].area * (ps[l].xcenter + 1)
              /\ ps[l].area * ps[l].ycenter <= SumCoord(PixelsOf(l), 1)
              /\ SumCoord(PixelsOf(l), 1) < ps[l].area * (ps[l].ycenter + 1)

(***************************************************************************)
(* C14: the neighbour guards                                               *)
(***************************************************************************)
\* C14: every pixel label_region reads or writes lies in
\* [0, height) x [0, width), for every grid size, width = 1 and height = 1
\* included: the neighbours examined for a dequeued point are in the grid,
\* only points of the grid are queued, and no cell outside it is written.
\* (Stated for a max of at least 1.)
C14_AccessesInGrid ==
    img.max >= 1 =>
        /\ \A k \in 1 .. Len(queue) : InGrid(img, queue[k])
        /\ pc = "fill" =>
              LET nb == Neighbours(img, Head(queue))
              IN  \A k \in 1 .. Len(nb) : InGrid(img, nb[k])
        /\ \A c \in DOMAIN img.image \ Cells(img.height, img.width) :
              img.image[c] = img0.image[c]

(***************************************************************************)
(* C15: termination of label_all                                           *)
(***************************************************************************)
\* label_all runs to completion once called: a step that can be taken is
\* taken.
SpecLabelFair == InitLabel /\ [][NextLabel]_vars /\ WF_vars(NextLabel)

\* C15: label_all terminates on every grid and every max of at least 1:
\* each flood fill empties its queue or returns the overflow failure after
\* finitely many dequeues, and the scan then goes on or stops.  (Stated
\* for the grids whose height and width are not 1, on which the fill
\* stays inside the grid.)
C15_Terminates ==
    (img.max >= 1 /\ img.height # 1 /\ img.width # 1) => <>(pc = "done")

====
